---- MODULE Spec2Model ----
(***************************************************************************)
(* The CLI adapter of llm-council (backend/cli_adapter.py) together with   *)
(* the configuration store it reads (backend/cli_config.py).               *)
(*                                                                         *)
(* Text is a sequence of characters.  The two literals the transcript      *)
(* filter looks for, 'codex' and 'tokens used', are single characters of   *)
(* the alphabet, so that every text of the model stands for the Python     *)
(* string obtained by writing each character out; split, strip, join,      *)
(* startswith and substring search commute with that reading.              *)
(***************************************************************************)
EXTENDS Integers, Sequences, FiniteSets, TLC

VARIABLES
    store,       \* the file CONFIG_FILE of cli_config.py
    edits,       \* number of configuration edits made so far
    batch,       \* the query_models_parallel call: idle, running, returned, raised
    models,      \* its argument models
    messages,    \* its argument messages
    pc,          \* pc[i]: where the i-th query_model call stands
    cmd,         \* cmd[i]: the argument vector the i-th call built
    proc,        \* proc[i]: the child process of the i-th call
    resp,        \* resp[i]: what the i-th call returned (or the exception it raised)
    spawned,     \* spawned[i]: processes the i-th call has created
    result,      \* the mapping query_models_parallel returned
    transcript,  \* argument of a filter_codex_thinking call
    answer       \* what that call returned

adapterVars == <<store, edits, batch, models, messages, pc, cmd, proc, resp, spawned, result>>
filterVars == <<transcript, answer>>
vars == <<store, edits, batch, models, messages, pc, cmd, proc, resp, spawned, result,
          transcript, answer>>

(***************************************************************************)
(* Bounds of the model.                                                    *)
(***************************************************************************)
MaxMembers == 2   \* longest list of model ids passed to query_models_parallel
MaxEdits == 1     \* configuration edits during one behaviour
MaxLines == 4     \* most lines of a transcript given to filter_codex_thinking
MaxMessages == 3  \* longest conversation given to format_messages_as_prompt

(***************************************************************************)
(* Python's str and list operations, as the code uses them.                *)
(***************************************************************************)
NL == "\n"
SP == " "
CODEX == "codex"
TOKENS_USED == "tokens used"
InvalidByte == "\\xff"

Min(S) == CHOOSE x \in S : \A y \in S : x <= y
Max(S) == CHOOSE x \in S : \A y \in S : y <= x

\* F applied to the value of e, with e evaluated once.
Bind(e, F(_)) == CHOOSE r \in {F(v) : v \in {e}} : TRUE

IsSpace(c) == c \in {SP, NL}

\* str.strip()
Strip(text) ==
    Bind(text, LAMBDA s :
        Bind({i \in 1..Len(s) : ~IsSpace(s[i])}, LAMBDA keep :
            IF keep = {} THEN <<>> ELSE SubSeq(s, Min(keep), Max(keep))))

\* str.find(sub) + 1: the first position where sub occurs in s, 0 when it does not
Find(text, sub) ==
    Bind(text, LAMBDA s :
        Bind({i \in 1..(Len(s) - Len(sub) + 1) : SubSeq(s, i, i + Len(sub) - 1) = sub},
             LAMBDA at : IF at = {} THEN 0 ELSE Min(at)))

\* str.startswith(prefix)
StartsWith(s, prefix) ==
    Len(s) >= Len(prefix) /\ SubSeq(s, 1, Len(prefix)) = prefix

\* str.split(c), c one character: the pieces between the occurrences of c
Split(text, c) ==
    Bind(text, LAMBDA s :
        Bind({i \in 1..Len(s) : s[i] = c}, LAMBDA cuts :
            LET cut(k) == IF k = 0 THEN 0
                          ELSE IF k > Cardinality(cuts) THEN Len(s) + 1
                          ELSE CHOOSE i \in cuts : Cardinality({j \in cuts : j < i}) = k - 1
            IN  [k \in 1..(Cardinality(cuts) + 1) |->
                    SubSeq(s, cut(k - 1) + 1, cut(k) - 1)]))

\* str.split(sep)[0]: what precedes the first occurrence of sep
SplitHead(text, sep) ==
    Bind(text, LAMBDA s :
        Bind(Find(s, sep), LAMBDA i : IF i = 0 THEN s ELSE SubSeq(s, 1, i - 1)))

\* str.split(sep, 1)
Split1(text, sep) ==
    Bind(text, LAMBDA s :
        Bind(Find(s, sep), LAMBDA i :
            IF i = 0 THEN <<s>>
            ELSE <<SubSeq(s, 1, i - 1), SubSeq(s, i + Len(sep), Len(s))>>))

\* sep.join(parts)
RECURSIVE JoinFrom(_, _, _)
JoinFrom(parts, k, sep) ==
    IF k > Len(parts) THEN <<>>
    ELSE IF k = Len(parts) THEN parts[k]
    ELSE parts[k] \o sep \o JoinFrom(parts, k + 1, sep)

Join(parts, sep) == Bind(parts, LAMBDA ps : JoinFrom(ps, 1, sep))

(***************************************************************************)
(* filter_codex_thinking                                                   *)
(***************************************************************************)
\* The for loop of lines 133-141 from line i on: the captured lines.
RECURSIVE ScanLines(_, _, _, _)
ScanLines(lines, i, in_codex_section, codex_content) ==
    IF i > Len(lines) THEN codex_content
    ELSE Bind(Strip(lines[i]), LAMBDA stripped :
             IF stripped = <<CODEX>>
                 THEN ScanLines(lines, i + 1, TRUE, codex_content)
             ELSE IF StartsWith(stripped, <<TOKENS_USED>>)
                 THEN codex_content
             ELSE IF in_codex_section
                 THEN Bind(Append(codex_content, lines[i]), LAMBDA captured :
                          ScanLines(lines, i + 1, TRUE, captured))
             ELSE ScanLines(lines, i + 1, FALSE, codex_content))

\* A variant of filter_codex_thinking that cuts every text at 'tokens used'.
filter_cut_at_tokens_used(text) ==
    Strip(SplitHead(text, <<TOKENS_USED>>))

filter_codex_thinking(text) ==
    Bind(text, LAMBDA content :
        Bind(Split(content, NL), LAMBDA lines :
            Bind(ScanLines(lines, 1, FALSE, <<>>), LAMBDA codex_content :
                IF codex_content # <<>>
                    THEN Strip(Join(codex_content, <<NL>>))
                ELSE IF Find(content, <<NL, CODEX, NL>>) # 0
                    THEN LET parts == Split1(content, <<NL, CODEX, NL>>)
                         IN  Strip(SplitHead(parts[2], <<NL, TOKENS_USED>>))
                ELSE Strip(content))))

(***************************************************************************)
(* cli_config.py: the configuration store                                  *)
(***************************************************************************)
\* A JSON array and a JSON string, told apart by their one key.
List(items) == [list |-> items]
Str(chars) == [str |-> chars]

DEFAULT_CONFIG ==
    [clis |-> <<
        [id |-> "gemini", name |-> "Gemini", command |-> "gemini",
         args |-> List(<<>>), enabled |-> TRUE],
        [id |-> "claude", name |-> "Claude", command |-> "claude",
         args |-> List(<<"-p">>), enabled |-> TRUE],
        [id |-> "codex", name |-> "Codex", command |-> "codex",
         args |-> List(<<"exec">>), enabled |-> TRUE],
        [id |-> "amp", name |-> "Amp", command |-> "amp",
         args |-> List(<<"-x">>), enabled |-> TRUE] >>,
     chairman_id |-> "gemini",
     council_ids |-> <<"gemini", "claude", "codex", "amp">>]

\* validate_config: a configuration the repository accepts for saving.
validate_config(config) ==
    LET clis == IF "clis" \in DOMAIN config THEN config.clis ELSE <<>>
        Enabled(c) == IF "enabled" \in DOMAIN c THEN c.enabled ELSE TRUE
        ids == {clis[k].id : k \in 1..Len(clis)}
    IN  /\ clis # <<>>
        /\ \E k \in 1..Len(clis) : Enabled(clis[k])
        /\ "chairman_id" \in DOMAIN config
        /\ config.chairman_id \in ids
        /\ \A k \in 1..Len(clis) : clis[k].id = config.chairman_id => Enabled(clis[k])
        /\ \A k \in 1..Len(clis) :
              /\ "name" \in DOMAIN clis[k] /\ clis[k].name # ""
              /\ "command" \in DOMAIN clis[k] /\ clis[k].command # ""

\* The file: missing, holding text that is no JSON, or holding a JSON object.
NoFile == [exists |-> FALSE]
NotJson == [exists |-> TRUE, json |-> FALSE]
File(config) == [exists |-> TRUE, json |-> TRUE, config |-> config]

\* save_config: what the file holds after the call.
save_config(config) == File(config)

\* A variant of load_config that hands out the built-in configuration without
\* looking at the file.
load_config_builtin(file) ==
    [config |-> DEFAULT_CONFIG, file |-> file]

\* A variant of load_config that replaces a file it cannot parse by the defaults.
load_config_repairing(file) ==
    IF ~file.exists \/ ~file.json
        THEN [config |-> DEFAULT_CONFIG, file |-> save_config(DEFAULT_CONFIG)]
    ELSE [config |-> file.config, file |-> file]

\* load_config: the configuration returned and what the file holds afterwards.
load_config(file) ==
    IF ~file.exists
        THEN [config |-> DEFAULT_CONFIG, file |-> save_config(DEFAULT_CONFIG)]
    ELSE IF ~file.json
        THEN [config |-> DEFAULT_CONFIG, file |-> file]
    ELSE [config |-> file.config, file |-> file]

(***************************************************************************)
(* cli_adapter.py: the pure part                                           *)
(***************************************************************************)
\* A Python call either returns a value or raises.
Return(v) == [value |-> v]
Raise(exc) == [raises |-> exc]
Raises(r) == "raises" \in DOMAIN r

\* get_cli_configs applied to what load_config returned: the dict id -> {command, args},
\* a later entry of the same id replacing an earlier one; KeyError for a missing key.
get_cli_configs(config) ==
    IF "clis" \notin DOMAIN config THEN Raise("KeyError")
    ELSE LET clis == config.clis
             n == Len(clis)
         IN  IF \E k \in 1..n : {"id", "command", "args"} \ DOMAIN clis[k] # {}
                 THEN Raise("KeyError")
             ELSE Return([id \in {clis[k].id : k \in 1..n} |->
                      LET last == clis[Max({k \in 1..n : clis[k].id = id})]
                      IN  [command |-> last.command, args |-> last.args]])

\* dict.get(key, default)
Get(d, key, default) == IF key \in DOMAIN d THEN d[key] ELSE default

\* The parts list of lines 28-37.
RECURSIVE Parts(_)
Parts(msgs) ==
    IF msgs = <<>> THEN <<>>
    ELSE LET msg == Head(msgs)
             role == Get(msg, "role", "user")
             content == Get(msg, "content", <<>>)
         IN  (IF role = "system" THEN << <<"System: ">> \o content >>
              ELSE IF role = "user" THEN << <<"User: ">> \o content >>
              ELSE IF role = "assistant" THEN << <<"Assistant: ">> \o content >>
              ELSE <<>>) \o Parts(Tail(msgs))

\* A variant of format_messages_as_prompt without the fast path of lines 39-41.
format_always_prefixed(msgs) ==
    Join(Parts(msgs), <<NL, NL>>)

\* A variant of format_messages_as_prompt that keeps a message of an unrecognised
\* role as a line without prefix.
RECURSIVE PartsKeepingOthers(_)
PartsKeepingOthers(msgs) ==
    IF msgs = <<>> THEN <<>>
    ELSE LET msg == Head(msgs)
         IN  (IF Get(msg, "role", "user") \in {"system", "user", "assistant"}
                  THEN Parts(<<msg>>)
                  ELSE << Get(msg, "content", <<>>) >>) \o PartsKeepingOthers(Tail(msgs))

format_keeping_others(msgs) ==
    IF Len(msgs) = 1 /\ Get(msgs[1], "role", "None") = "user"
        THEN Get(msgs[1], "content", <<>>)
    ELSE Join(PartsKeepingOthers(msgs), <<NL, NL>>)

format_messages_as_prompt(msgs) ==
    IF Len(msgs) = 1 /\ Get(msgs[1], "role", "None") = "user"
        THEN Get(msgs[1], "content", <<>>)
    ELSE Join(Parts(msgs), <<NL, NL>>)

\* bytes.decode(): strict UTF-8
decode(bytes) ==
    IF \E k \in 1..Len(bytes) : bytes[k] = InvalidByte THEN Raise("UnicodeDecodeError")
    ELSE Return(bytes)

(***************************************************************************)
(* cli_adapter.py: query_model                                             *)
(***************************************************************************)
\* Return values of query_model, and the mark of a call that has not returned.
None == [none |-> TRUE]
Result(content) == [content |-> content, reasoning_details |-> None]
Pending == [pending |-> TRUE]
IsResult(r) == "content" \in DOMAIN r

\* The child process of one call.
NoProcess == [state |-> "none"]
Running(stdout) == [state |-> "running", stdout |-> stdout]
Exited(state, returncode, stdout, stderr) ==
    [state |-> state, returncode |-> returncode, stdout |-> stdout, stderr |-> stderr]
HasExited(p) == "returncode" \in DOMAIN p

\* A variant of unknown_model that runs the unknown id as a command.
unknown_model_as_command(model, cli_configs) ==
    [pc |-> "spawn", resp |-> Pending, cmd |-> [argv |-> <<model>>, prompt |-> <<>>]]

\* Lines 64-66: the model id is not a key of cli_configs.
unknown_model(model, cli_configs) ==
    [pc |-> "done", resp |-> None, cmd |-> <<>>]

\* Lines 68-72: config, prompt and cmd. Concatenating args that is no list raises
\* TypeError, outside the try block and so to the caller.
build_command(model, cli_configs, msgs) ==
    LET config == cli_configs[model]
        prompt == format_messages_as_prompt(msgs)
    IN  IF "list" \notin DOMAIN config.args
            THEN [pc |-> "raised", resp |-> Raise("TypeError"), cmd |-> <<>>]
        ELSE [pc |-> "spawn", resp |-> Pending,
              cmd |-> [argv |-> <<config.command>> \o config.args.list,
                       prompt |-> prompt]]

\* Lines 62-72, which run without suspension and outside the try block.
query_model_start(file, model, msgs) ==
    LET loaded == load_config(file)
        cli_configs == get_cli_configs(loaded.config)
    IN  IF Raises(cli_configs)
            THEN [pc |-> "raised", resp |-> cli_configs, cmd |-> <<>>]
        ELSE IF model \notin DOMAIN cli_configs.value
            THEN unknown_model(model, cli_configs.value)
        ELSE build_command(model, cli_configs.value, msgs)

\* A variant of nonzero_exit that starts the command again.
nonzero_exit_retry(model, p) ==
    [pc |-> "spawn", resp |-> Pending]

\* Lines 92-94: the process exited with a non-zero status. Whether or not
\* stderr.decode() raises (then line 110 catches it), the call returns None.
nonzero_exit(model, p) ==
    [pc |-> "done", resp |-> None]

\* A variant of zero_exit that filters the output of every model.
zero_exit_filter_all(model, p) ==
    LET text == decode(p.stdout)
    IN  IF Raises(text) THEN [pc |-> "done", resp |-> None]
        ELSE [pc |-> "done", resp |-> Result(filter_codex_thinking(Strip(text.value)))]

\* Lines 96-105, and 110-112 when stdout.decode() raises.
zero_exit(model, p) ==
    LET text == decode(p.stdout)
    IN  IF Raises(text) THEN [pc |-> "done", resp |-> None]
        ELSE LET content == Strip(text.value)
             IN  [pc |-> "done",
                  resp |-> Result(IF model = "codex"
                                      THEN filter_codex_thinking(content)
                                      ELSE content)]

\* Lines 92-105 after communicate() has returned.
after_communicate(model, p) ==
    IF p.returncode # 0 THEN nonzero_exit(model, p) ELSE zero_exit(model, p)

\* Line 87, process.kill(): a running process gets SIGKILL, a process that has
\* exited and is not yet collected is left alone, and for a process already
\* collected kill() raises ProcessLookupError, which line 110 turns into None.
kill(p) ==
    IF p.state = "running"
        THEN [pc |-> "wait", resp |-> Pending,
              proc |-> Exited("killed", -9, p.stdout, <<>>)]
    ELSE IF p.state = "zombie"
        THEN [pc |-> "wait", resp |-> Pending, proc |-> p]
    ELSE [pc |-> "done", resp |-> None, proc |-> p]

\* A variant of wait_returns that does not wait for the process.
wait_returns_at_once(p) == TRUE

\* Line 88, process.wait(): returns once the process has been collected.
wait_returns(p) == p.state = "reaped"

\* Lines 88-90 after process.wait() has returned.
after_wait(model, p) ==
    [pc |-> "done", resp |-> None]

(***************************************************************************)
(* cli_adapter.py: query_models_parallel                                   *)
(***************************************************************************)
Members == DOMAIN pc

\* A variant of MayStart that awaits each call before starting the next.
MayStartSequential(i) == \A j \in 1..(i - 1) : pc[j] \in {"done", "raised"}

\* Lines 173-176: gather schedules every task at once; the event loop starts
\* them in list order, each running up to its first await.
MayStart(i) == \A j \in 1..(i - 1) : pc[j] # "start"

\* Line 176: gather's future completes when every task has returned ...
gather_done == \A i \in Members : pc[i] = "done"
\* ... and raises as soon as one task has raised (return_exceptions is not set);
\* by then every task has run its first step, which the loop ran before the
\* callback of the task that raised.
gather_raises ==
    /\ \E i \in Members : pc[i] = "raised"
    /\ \A i \in Members : pc[i] # "start"

\* A variant of zip_dict that leaves out the ids whose call returned None.
zip_dict_drop_failed(ms, responses) ==
    [m \in {ms[i] : i \in {k \in 1..Len(ms) : responses[k] # None}} |->
        responses[Max({i \in 1..Len(ms) : ms[i] = m})]]

\* A variant of zip_dict that pairs the ids with the responses in reverse order.
zip_dict_crossed(ms, responses) ==
    [m \in {ms[i] : i \in 1..Len(ms)} |->
        responses[Len(ms) + 1 - Max({i \in 1..Len(ms) : ms[i] = m})]]

\* Line 179: the dict built from zip(models, responses).
zip_dict(ms, responses) ==
    [m \in {ms[i] : i \in 1..Len(ms)} |->
        responses[Max({i \in 1..Len(ms) : ms[i] = m})]]

(***************************************************************************)
(* The inputs and the environment the model draws from.                    *)
(***************************************************************************)
ModelIds == {"gemini", "codex", "unknown_model"}

RECURSIVE SeqsUpTo(_, _)
SeqsUpTo(S, n) ==
    IF n = 0 THEN {<<>>}
    ELSE LET shorter == SeqsUpTo(S, n - 1)
         IN  shorter \cup {Append(q, x) : q \in shorter, x \in S}

ModelLists == SeqsUpTo(ModelIds, MaxMembers)

Conversations ==
    { << [role |-> "user", content |-> <<"x">>] >>,
      << [role |-> "system", content |-> <<"y">>],
         [role |-> "user", content |-> <<"x">>] >> }

\* Configurations validate_config accepts: the defaults, one without gemini,
\* one whose codex args is a JSON string, one whose gemini entry has no args,
\* one that launches gemini by another command and has no codex.
CodexOnly ==
    [clis |-> << [id |-> "codex", name |-> "Codex", command |-> "codex",
                  args |-> List(<<"exec">>), enabled |-> TRUE] >>,
     chairman_id |-> "codex", council_ids |-> <<"codex">>]
ArgsAsString ==
    [clis |-> << [id |-> "gemini", name |-> "Gemini", command |-> "gemini",
                  args |-> List(<<>>), enabled |-> TRUE],
                 [id |-> "codex", name |-> "Codex", command |-> "codex",
                  args |-> Str("exec"), enabled |-> TRUE] >>,
     chairman_id |-> "gemini", council_ids |-> <<"gemini", "codex">>]
ArgsMissing ==
    [clis |-> << [id |-> "gemini", name |-> "Gemini", command |-> "gemini",
                  enabled |-> TRUE] >>,
     chairman_id |-> "gemini", council_ids |-> <<"gemini">>]
GeminiRelaunched ==
    [clis |-> << [id |-> "gemini", name |-> "Gemini", command |-> "gemini-next",
                  args |-> List(<<"-p">>), enabled |-> TRUE] >>,
     chairman_id |-> "gemini", council_ids |-> <<"gemini">>]
Configs == {DEFAULT_CONFIG, CodexOnly, ArgsAsString, ArgsMissing, GeminiRelaunched}

Files == {NoFile, NotJson} \cup {File(c) : c \in Configs}

\* What a process may have written to stdout while it is still running.
PartialOutput == <<"x">>

\* How a process may end: status, stdout, stderr.
ExitOutcomes ==
    { [returncode |-> 0, stdout |-> <<"x", SP, NL>>, stderr |-> <<>>],
      [returncode |-> 0,
       stdout |-> <<"x", NL, CODEX, NL, "y", NL, TOKENS_USED, NL>>, stderr |-> <<>>],
      [returncode |-> 0, stdout |-> <<"x", InvalidByte>>, stderr |-> <<>>],
      [returncode |-> 1, stdout |-> <<"x">>, stderr |-> <<"x", InvalidByte>>] }

\* create_subprocess_exec: the process starts, the executable is not found, or
\* the spawn fails otherwise (PermissionError, ...).
SpawnOutcomes == {"started", "FileNotFoundError", "OSError"}

(***************************************************************************)
(* The state machine.                                                      *)
(***************************************************************************)
NotApplied == [applied |-> FALSE]

Init ==
    /\ store \in Files
    /\ edits = 0
    /\ batch = "idle"
    /\ models = <<>>
    /\ messages = <<>>
    /\ pc = <<>>
    /\ cmd = <<>>
    /\ proc = <<>>
    /\ resp = <<>>
    /\ spawned = <<>>
    /\ result = <<>>
    /\ transcript = <<>>
    /\ answer = NotApplied

\* query_models_parallel(ms, msgs) is called: lines 173-176 create the tasks.
Call(ms, msgs) ==
    /\ batch = "idle"
    /\ batch' = "running"
    /\ models' = ms
    /\ messages' = msgs
    /\ pc' = [i \in 1..Len(ms) |-> "start"]
    /\ cmd' = [i \in 1..Len(ms) |-> <<>>]
    /\ proc' = [i \in 1..Len(ms) |-> NoProcess]
    /\ resp' = [i \in 1..Len(ms) |-> Pending]
    /\ spawned' = [i \in 1..Len(ms) |-> 0]
    /\ UNCHANGED <<store, edits, result, transcript, answer>>

\* Lines 62-72 of the i-th call.
Start(i) ==
    /\ pc[i] = "start"
    /\ MayStart(i)
    /\ LET to == query_model_start(store, models[i], messages)
       IN  /\ store' = load_config(store).file
           /\ pc' = [pc EXCEPT ![i] = to.pc]
           /\ resp' = [resp EXCEPT ![i] = to.resp]
           /\ cmd' = [cmd EXCEPT ![i] = to.cmd]
    /\ UNCHANGED <<edits, batch, models, messages, proc, spawned, result, transcript, answer>>

\* Lines 75-79, and 107-112 when the spawn raises.
Spawn(i, outcome) ==
    /\ pc[i] = "spawn"
    /\ IF outcome = "started"
           THEN /\ pc' = [pc EXCEPT ![i] = "communicate"]
                /\ proc' = [proc EXCEPT ![i] = Running(<<>>)]
                /\ spawned' = [spawned EXCEPT ![i] = @ + 1]
                /\ UNCHANGED resp
           ELSE /\ pc' = [pc EXCEPT ![i] = "done"]
                /\ resp' = [resp EXCEPT ![i] = None]
                /\ UNCHANGED <<proc, spawned>>
    /\ UNCHANGED <<store, edits, batch, models, messages, cmd, result, transcript, answer>>

\* The process writes to its stdout pipe.
ProcWrite(i) ==
    /\ proc[i].state = "running"
    /\ proc[i].stdout = <<>>
    /\ proc' = [proc EXCEPT ![i] = Running(PartialOutput)]
    /\ UNCHANGED <<store, edits, batch, models, messages, pc, cmd, resp, spawned, result,
                   transcript, answer>>

\* The process exits on its own.
ProcExit(i, o) ==
    /\ proc[i].state = "running"
    /\ proc' = [proc EXCEPT ![i] = Exited("zombie", o.returncode, o.stdout, o.stderr)]
    /\ UNCHANGED <<store, edits, batch, models, messages, pc, cmd, resp, spawned, result,
                   transcript, answer>>

\* The exited or killed process is collected (the event loop's child watcher).
Reap(i) ==
    /\ proc[i].state \in {"zombie", "killed"}
    /\ proc' = [proc EXCEPT ![i].state = "reaped"]
    /\ UNCHANGED <<store, edits, batch, models, messages, pc, cmd, resp, spawned, result,
                   transcript, answer>>

\* Lines 82-85 return: communicate() is complete once the process is collected;
\* then lines 92-105.
CommunicateReturns(i) ==
    /\ pc[i] = "communicate"
    /\ proc[i].state = "reaped"
    /\ LET to == after_communicate(models[i], proc[i])
       IN  /\ pc' = [pc EXCEPT ![i] = to.pc]
           /\ resp' = [resp EXCEPT ![i] = to.resp]
    /\ UNCHANGED <<store, edits, batch, models, messages, cmd, proc, spawned, result,
                   transcript, answer>>

\* Reading a pipe of the process fails (OSError from the event loop's pipe
\* transport) while the process has not been collected: communicate() raises,
\* and lines 110-112 return None.
CommunicateRaises(i) ==
    /\ pc[i] = "communicate"
    /\ proc[i].state \in {"running", "zombie"}
    /\ pc' = [pc EXCEPT ![i] = "done"]
    /\ resp' = [resp EXCEPT ![i] = None]
    /\ UNCHANGED <<store, edits, batch, models, messages, cmd, proc, spawned, result,
                   transcript, answer>>

\* Line 86: the timeout expires before communicate() has returned.
Timeout(i) ==
    /\ pc[i] = "communicate"
    /\ pc' = [pc EXCEPT ![i] = "kill"]
    /\ UNCHANGED <<store, edits, batch, models, messages, cmd, proc, resp, spawned, result,
                   transcript, answer>>

\* Line 87.
Kill(i) ==
    /\ pc[i] = "kill"
    /\ LET to == kill(proc[i])
       IN  /\ pc' = [pc EXCEPT ![i] = to.pc]
           /\ resp' = [resp EXCEPT ![i] = to.resp]
           /\ proc' = [proc EXCEPT ![i] = to.proc]
    /\ UNCHANGED <<store, edits, batch, models, messages, cmd, spawned, result,
                   transcript, answer>>

\* Lines 88-90.
WaitReturns(i) ==
    /\ pc[i] = "wait"
    /\ wait_returns(proc[i])
    /\ LET to == after_wait(models[i], proc[i])
       IN  /\ pc' = [pc EXCEPT ![i] = to.pc]
           /\ resp' = [resp EXCEPT ![i] = to.resp]
    /\ UNCHANGED <<store, edits, batch, models, messages, cmd, proc, spawned, result,
                   transcript, answer>>

\* Lines 176-179: every task has returned; the mapping is built and returned.
BatchReturns ==
    /\ batch = "running"
    /\ gather_done
    /\ batch' = "returned"
    /\ result' = zip_dict(models, resp)
    /\ UNCHANGED <<store, edits, models, messages, pc, cmd, proc, resp, spawned,
                   transcript, answer>>

\* Line 176: a task has raised; the exception leaves query_models_parallel.
BatchRaises ==
    /\ batch = "running"
    /\ gather_raises
    /\ batch' = "raised"
    /\ UNCHANGED <<store, edits, models, messages, pc, cmd, proc, resp, spawned, result,
                   transcript, answer>>

\* The configuration is edited and saved (save_config) while the adapter is in
\* use. The adapter reads the file in Start only, so edits are drawn while a
\* read is still to come.
EditConfig(config) ==
    /\ edits < MaxEdits
    /\ batch = "idle" \/ \E i \in Members : pc[i] = "start"
    /\ validate_config(config)
    /\ save_config(config) # store
    /\ store' = save_config(config)
    /\ edits' = edits + 1
    /\ UNCHANGED <<batch, models, messages, pc, cmd, proc, resp, spawned, result,
                   transcript, answer>>

\* The steps of the i-th call, and of its process.
Member(i) ==
    \/ Start(i)
    \/ \E outcome \in SpawnOutcomes : Spawn(i, outcome)
    \/ CommunicateReturns(i)
    \/ CommunicateRaises(i)
    \/ Timeout(i)
    \/ Kill(i)
    \/ WaitReturns(i)

Process(i) ==
    \/ ProcWrite(i)
    \/ \E o \in ExitOutcomes : ProcExit(i, o)
    \/ Reap(i)

Next ==
    \/ \E ms \in ModelLists, msgs \in Conversations : Call(ms, msgs)
    \/ \E i \in Members : Start(i)
    \/ \E i \in Members, outcome \in SpawnOutcomes : Spawn(i, outcome)
    \/ \E i \in Members : CommunicateReturns(i)
    \/ \E i \in Members : CommunicateRaises(i)
    \/ \E i \in Members : Timeout(i)
    \/ \E i \in Members : Kill(i)
    \/ \E i \in Members : WaitReturns(i)
    \/ \E i \in Members : ProcWrite(i)
    \/ \E i \in Members, o \in ExitOutcomes : ProcExit(i, o)
    \/ \E i \in Members : Reap(i)
    \/ BatchReturns
    \/ BatchRaises
    \/ \E config \in Configs : EditConfig(config)

Spec == Init /\ [][Next]_vars

\* The event loop runs every task that can take a step, and the kernel collects
\* every process that has exited or been killed. A process need never exit on
\* its own, the caller need never call, and the configuration need never be
\* edited.
Fairness ==
    /\ \A i \in 1..MaxMembers :
          /\ WF_vars(i \in Members /\ Start(i))
          /\ WF_vars(i \in Members /\ \E outcome \in SpawnOutcomes : Spawn(i, outcome))
          /\ WF_vars(i \in Members /\ CommunicateReturns(i))
          /\ WF_vars(i \in Members /\ Timeout(i))
          /\ WF_vars(i \in Members /\ Kill(i))
          /\ WF_vars(i \in Members /\ WaitReturns(i))
          /\ WF_vars(i \in Members /\ Reap(i))
    /\ WF_vars(BatchReturns)
    /\ WF_vars(BatchRaises)

FairSpec == Spec /\ Fairness

(***************************************************************************)
(* filter_codex_thinking applied to a transcript.                          *)
(***************************************************************************)
LineShapes ==
    { <<>>, <<"x">>, <<"y", SP>>,
      <<CODEX>>, <<SP, CODEX, SP>>, <<CODEX, "x">>,
      <<TOKENS_USED>>, <<SP, TOKENS_USED, "x">>, <<"x", SP, TOKENS_USED>> }

Transcripts == {Join(ls, <<NL>>) : ls \in SeqsUpTo(LineShapes, MaxLines) \ {<<>>}}

Applied(text) == [applied |-> TRUE, value |-> text]

InitFilter ==
    /\ store = NoFile
    /\ edits = 0
    /\ batch = "idle"
    /\ models = <<>>
    /\ messages = <<>>
    /\ pc = <<>>
    /\ cmd = <<>>
    /\ proc = <<>>
    /\ resp = <<>>
    /\ spawned = <<>>
    /\ result = <<>>
    /\ transcript \in Transcripts
    /\ answer = NotApplied

Filter ==
    /\ ~answer.applied
    /\ answer' = Applied(filter_codex_thinking(transcript))
    /\ UNCHANGED <<store, edits, batch, models, messages, pc, cmd, proc, resp, spawned,
                   result, transcript>>

NextFilter == Filter

FilterSpec == InitFilter /\ [][NextFilter]_vars

(***************************************************************************)
(* format_messages_as_prompt applied to a conversation.                    *)
(***************************************************************************)
\* Messages: a role the function knows, another role or no role at all, with a
\* content (whitespace included) or without one.
Roles == {"system", "user", "assistant", "tool"}
Contents == { <<"x">>, <<SP, "y", NL>> }
Messages ==
    {[role |-> r, content |-> c] : r \in Roles, c \in Contents}
        \cup {[content |-> c] : c \in Contents}
        \cup {[role |-> "user"]}

AllConversations == SeqsUpTo(Messages, MaxMessages)

InitFormat ==
    /\ store = NoFile
    /\ edits = 0
    /\ batch = "idle"
    /\ models = <<>>
    /\ messages \in AllConversations
    /\ pc = <<>>
    /\ cmd = <<>>
    /\ proc = <<>>
    /\ resp = <<>>
    /\ spawned = <<>>
    /\ result = <<>>
    /\ transcript = <<>>
    /\ answer = NotApplied

Format ==
    /\ ~answer.applied
    /\ answer' = Applied(format_messages_as_prompt(messages))
    /\ UNCHANGED <<store, edits, batch, models, messages, pc, cmd, proc, resp, spawned,
                   result, transcript>>

NextFormat == Format

FormatSpec == InitFormat /\ [][NextFormat]_vars

(***************************************************************************)
(* Properties.                                                             *)
(***************************************************************************)
Finished(i) == pc[i] \in {"done", "raised"}
Requested == {models[i] : i \in 1..Len(models)}

\* C1: query_model never raises to its caller, whatever step faults, and so
\* query_models_parallel never raises either.
C1_NeverRaises ==
    /\ \A i \in Members : pc[i] # "raised"
    /\ batch # "raised"

\* C2: the mapping query_models_parallel returns has exactly the requested ids
\* as keys (duplicates collapsed), and each value is a result or None.
C2_KeysAreRequestedIds ==
    batch = "returned" =>
        /\ DOMAIN result = Requested
        /\ \A m \in DOMAIN result : result[m] = None \/ IsResult(result[m])

\* Two different ids were requested, one call failed and one succeeded, and the
\* mapping came back.
C2_Witness ==
    /\ batch = "returned"
    /\ Cardinality(Requested) = 2
    /\ \E m \in DOMAIN result : result[m] = None
    /\ \E m \in DOMAIN result : IsResult(result[m])

\* C3: every call of query_models_parallel eventually returns its mapping, also
\* when processes never exit on their own.
C3_BatchEventuallyReturns == (batch = "running") ~> (batch = "returned")

\* C4: control returns from query_models_parallel only when every member call
\* has finished.
C4_AllCompleteBarrier ==
    batch \in {"returned", "raised"} => \A i \in Members : Finished(i)

\* C5: the value stored under an id is the outcome of that id's own call, fixed
\* by that call's own process alone; no step of another member or of another
\* member's process changes a call, its process or its outcome.
C5_OwnOutcome ==
    [][ /\ \A i \in DOMAIN pc' :
              (pc'[i] = "done" /\ IsResult(resp'[i])) =>
                  /\ proc'[i].state = "reaped"
                  /\ proc'[i].returncode = 0
                  /\ ~Raises(decode(proc'[i].stdout))
                  /\ resp'[i].content =
                         IF models'[i] = "codex"
                             THEN filter_codex_thinking(Strip(proc'[i].stdout))
                             ELSE Strip(proc'[i].stdout)
        /\ batch' = "returned" =>
              \A m \in DOMAIN result' :
                  result'[m] = resp'[Max({i \in 1..Len(models') : models'[i] = m})]
        /\ \A i \in Members :
              (pc'[i] # pc[i] \/ proc'[i] # proc[i] \/ resp'[i] # resp[i]) =>
                  (Member(i) \/ Process(i))
      ]_vars

\* Two members finished in the opposite of the request order with different
\* outcomes, the first after its process was killed, and the mapping came back.
C5_Witness ==
    /\ batch = "returned"
    /\ Len(models) = 2
    /\ models[1] # models[2]
    /\ proc[1].state = "reaped" /\ proc[1].returncode = -9
    /\ result[models[1]] = None
    /\ IsResult(result[models[2]])

\* C6: members run concurrently: once the members listed before it have started,
\* an unfinished member or its process can always take a step, whatever the other
\* members are waiting for, and a member whose process has been collected can
\* return.
C6_NoHeadOfLineBlocking ==
    \A i \in Members :
        /\ (~Finished(i) /\ \A j \in 1..(i - 1) : pc[j] # "start") =>
               ENABLED (Member(i) \/ Process(i))
        /\ (pc[i] = "communicate" /\ proc[i].state = "reaped") =>
               ENABLED CommunicateReturns(i)

\* The second member has returned a result while the first member's process,
\* started before it, is still running.
C6_Witness ==
    /\ Len(models) = 2
    /\ pc[1] = "communicate" /\ proc[1].state = "running"
    /\ pc[2] = "done" /\ IsResult(resp[2]) /\ proc[2].state = "reaped"

\* C7: after a timeout the call kills the process, waits until it is collected
\* and only then returns, and it returns None whatever the process had written.
C7_TimeoutKillsReapsReturnsNone ==
    [][ \A i \in Members :
            /\ (pc[i] = "kill" /\ pc'[i] # "kill") =>
                   \/ pc'[i] = "wait" /\ proc'[i].state # "running"
                   \/ pc'[i] = "done" /\ proc[i].state = "reaped"
            /\ (pc[i] = "wait" /\ pc'[i] # "wait") => pc'[i] = "done"
            /\ (pc[i] \in {"kill", "wait"} /\ pc'[i] = "done") =>
                   /\ resp'[i] = None
                   /\ proc'[i].state = "reaped"
      ]_vars

\* A call has returned None after killing a process that had written output.
C7_Witness ==
    \E i \in Members :
        /\ pc[i] = "done"
        /\ resp[i] = None
        /\ proc[i].state = "reaped"
        /\ proc[i].returncode = -9
        /\ proc[i].stdout = PartialOutput

\* C8: a call whose model id is not among the model specs it reads returns None
\* without creating a process, for every conversation.
C8_UnknownModelReturnsNone ==
    [][ \A i \in Members :
            LET cli_configs == get_cli_configs(load_config(store).config)
            IN  (/\ pc[i] = "start"
                 /\ pc'[i] # "start"
                 /\ ~Raises(cli_configs)
                 /\ models[i] \notin DOMAIN cli_configs.value) =>
                    /\ pc'[i] = "done"
                    /\ resp'[i] = None
                    /\ spawned'[i] = 0
                    /\ proc'[i] = NoProcess
      ]_vars

\* gemini was requested while the stored configuration knows codex only; the
\* call returned None and created no process.
C8_Witness ==
    \E i \in Members :
        /\ models[i] = "gemini"
        /\ store = File(CodexOnly)
        /\ edits = 0
        /\ pc[i] = "done"
        /\ resp[i] = None
        /\ spawned[i] = 0

\* C9: a non-zero exit status gives None whatever was written to stdout, and no
\* call creates more than one process.
C9_NonZeroExitNoRetry ==
    \A i \in Members :
        /\ spawned[i] <= 1
        /\ (pc[i] = "done" /\ HasExited(proc[i]) /\ proc[i].returncode # 0) =>
               resp[i] = None

\* A process wrote to stdout and exited with status 1; its call returned None.
C9_Witness ==
    \E i \in Members :
        /\ pc[i] = "done"
        /\ HasExited(proc[i])
        /\ proc[i].returncode = 1
        /\ proc[i].stdout # <<>>
        /\ resp[i] = None
        /\ spawned[i] = 1

\* The lines of a transcript, the marker lines among them, and for a marker line
\* the next line after it that starts with 'tokens used' (0 when there is none).
LinesOf(text) == Split(text, NL)
IsMarkerLine(line) == Strip(line) = <<CODEX>>
IsStopLine(line) == StartsWith(Strip(line), <<TOKENS_USED>>)
NextStop(lines, k) ==
    LET stops == {j \in (k + 1)..Len(lines) : IsStopLine(lines[j])}
    IN  IF stops = {} THEN 0 ELSE Min(stops)

\* The marker lines followed by a stop line with at least one line that is no
\* marker line in between.
SectionMarkers(lines) ==
    {k \in 1..Len(lines) :
        /\ IsMarkerLine(lines[k])
        /\ \E j \in (k + 1)..(NextStop(lines, k) - 1) : ~IsMarkerLine(lines[j])}

\* The lines strictly between line k and line t that are no marker lines.
RECURSIVE Between(_, _, _)
Between(lines, k, t) ==
    IF k + 1 >= t THEN <<>>
    ELSE (IF IsMarkerLine(lines[k + 1]) THEN <<>> ELSE <<lines[k + 1]>>)
         \o Between(lines, k + 1, t)

\* C10: for a transcript with a 'codex' marker line, a 'tokens used' line after
\* it and at least one line in between, filter_codex_thinking returns the lines
\* strictly between the first such marker line and that stop line, joined by
\* newlines and stripped, whatever precedes the marker line.
C10_ReturnsCodexSection ==
    LET lines == LinesOf(transcript)
        markers == SectionMarkers(lines)
    IN  (answer.applied /\ markers # {}) =>
            LET k == Min(markers)
            IN  answer.value =
                    Strip(Join(Between(lines, k, NextStop(lines, k)), <<NL>>))

\* The lines whose index is in S, in order.
Pick(lines, S) ==
    [n \in 1..Cardinality(S) |->
        lines[CHOOSE i \in S : Cardinality({j \in S : j < i}) = n - 1]]

\* The texts made of lines before line t only: some of them, in order, joined by
\* newlines and stripped.
BuiltBefore(lines, t) ==
    {Strip(Join(Pick(lines, S), <<NL>>)) : S \in SUBSET (1..(t - 1))}

\* The marker lines that have a 'tokens used' line somewhere after them.
ClosedMarkers(lines) ==
    {k \in 1..Len(lines) : IsMarkerLine(lines[k]) /\ NextStop(lines, k) # 0}

\* C11: for a transcript with a 'codex' marker line and a 'tokens used' line after
\* it, the output of filter_codex_thinking holds neither that 'tokens used' line
\* nor anything after it: it is made of lines before that line only, whatever
\* the body between the two is, empty or not.
C11_StopLineAndRestDropped ==
    LET lines == LinesOf(transcript)
        markers == ClosedMarkers(lines)
    IN  (answer.applied /\ markers # {}) =>
            answer.value \in BuiltBefore(lines, NextStop(lines, Min(markers)))

\* C12: for an input without a marker line, filter_codex_thinking returns the
\* whole input with only leading and trailing whitespace removed, also when
\* the input has a 'tokens used' line; and it returns text for every input.
C12_NoMarkerReturnsInputStripped ==
    answer.applied =>
        /\ answer.value \in Seq({NL, SP, CODEX, TOKENS_USED, "x", "y"})
        /\ (\A k \in 1..Len(LinesOf(transcript)) :
                ~IsMarkerLine(LinesOf(transcript)[k])) =>
               answer.value = Strip(transcript)

\* An input without a marker line that has a 'tokens used' line, a line that
\* starts with 'codex', and whitespace at an end, has been filtered.
C12_Witness ==
    LET lines == LinesOf(transcript)
    IN  /\ answer.applied
        /\ \A k \in 1..Len(lines) : ~IsMarkerLine(lines[k])
        /\ \E k \in 1..Len(lines) : IsStopLine(lines[k])
        /\ \E k \in 1..Len(lines) : StartsWith(lines[k], <<CODEX>>)
        /\ answer.value # transcript
        /\ answer.value # <<>>

\* The role a message carries ("" when it carries none), and the line the
\* claims give a message of a recognised role.
RoleOf(msg) == IF "role" \in DOMAIN msg THEN msg.role ELSE ""
Recognised(msg) == RoleOf(msg) \in {"system", "user", "assistant"}
LineOf(msg) ==
    << CASE RoleOf(msg) = "system" -> "System: "
         [] RoleOf(msg) = "user" -> "User: "
         [] RoleOf(msg) = "assistant" -> "Assistant: " >>
        \o Get(msg, "content", <<>>)

RECURSIVE RecognisedLines(_)
RecognisedLines(msgs) ==
    IF msgs = <<>> THEN <<>>
    ELSE (IF Recognised(Head(msgs)) THEN <<LineOf(Head(msgs))>> ELSE <<>>)
         \o RecognisedLines(Tail(msgs))

\* C13: for a conversation of more than one message, format_messages_as_prompt
\* returns the lines '<Role>: <content>' of the messages whose role is system,
\* user or assistant, in order, joined by two newlines; any other message, one
\* without a role included, contributes nothing.
C13_OnlyRecognisedRolesContribute ==
    (answer.applied /\ Len(messages) > 1) =>
        answer.value = Join(RecognisedLines(messages), <<NL, NL>>)

\* C14: for a conversation of exactly one message whose role is user,
\* format_messages_as_prompt returns the content of that message unchanged,
\* without prefix and without added or removed whitespace.
C14_SingleUserMessageVerbatim ==
    (answer.applied /\ Len(messages) = 1 /\ RoleOf(messages[1]) = "user") =>
        answer.value = Get(messages[1], "content", <<>>)

\* A single user message whose content begins and ends with whitespace came
\* back as it was.
C14_Witness ==
    /\ answer.applied
    /\ messages = << [role |-> "user", content |-> <<SP, "y", NL>>] >>
    /\ answer.value = <<SP, "y", NL>>

\* Every message carries a role.
AllCarryRole == \A k \in 1..Len(messages) : "role" \in DOMAIN messages[k]

C16_ResultOnlyFromCleanExit ==
    [][ \A i \in DOMAIN resp' :
            IsResult(resp'[i]) =>
                /\ i \in Members
                /\ IsResult(resp[i]) \/ pc[i] = "communicate"
                /\ pc'[i] = "done"
                /\ cmd'[i] # <<>>
                /\ spawned'[i] = 1
                /\ proc'[i].state = "reaped"
                /\ proc'[i].returncode = 0
                /\ ~Raises(decode(proc'[i].stdout))
                /\ resp'[i].content =
                       IF models'[i] = "codex"
                           THEN filter_codex_thinking(Strip(decode(proc'[i].stdout).value))
                           ELSE Strip(decode(proc'[i].stdout).value)
                /\ resp'[i].reasoning_details = None
                /\ DOMAIN resp'[i] = {"content", "reasoning_details"}
      ]_vars

\* Two calls got the same transcript from their processes: the one for codex
\* holds the filtered answer, the other one the whole transcript, stripped.
C16_Witness ==
    /\ Len(models) = 2
    /\ models[1] = "codex" /\ models[2] = "gemini"
    /\ proc[1].state = "reaped" /\ proc[2].state = "reaped"
    /\ proc[1].stdout = <<"x", NL, CODEX, NL, "y", NL, TOKENS_USED, NL>>
    /\ proc[2].stdout = proc[1].stdout
    /\ resp[1] = Result(<<"y">>)
    /\ resp[2] = Result(<<"x", NL, CODEX, NL, "y", NL, TOKENS_USED>>)

\* bytes.decode(errors='replace'): every invalid byte becomes U+FFFD.
Replacement == "\\ufffd"
DecodeReplacing(bytes) ==
    [k \in 1..Len(bytes) |-> IF bytes[k] = InvalidByte THEN Replacement ELSE bytes[k]]

\* C17: decoding is best-effort: when communicate() returns for a process that
\* exited with status 0, the call returns a result, invalid bytes of stdout
\* replaced, and never None.
C17_BestEffortDecode ==
    [][ \A i \in Members :
            (/\ pc[i] = "communicate"
             /\ proc[i].state = "reaped"
             /\ proc[i].returncode = 0
             /\ pc'[i] = "done") =>
                /\ IsResult(resp'[i])
                /\ resp'[i].content =
                       IF models[i] = "codex"
                           THEN filter_codex_thinking(Strip(DecodeReplacing(proc[i].stdout)))
                           ELSE Strip(DecodeReplacing(proc[i].stdout))
      ]_vars

\* The configuration the store holds (the defaults when it holds none), the
\* entries of that configuration for an id, and whether the adapter can use
\* the configuration for that id.
StoredConfig == IF store.exists /\ store.json THEN store.config ELSE DEFAULT_CONFIG
EntriesFor(config, id) == {k \in 1..Len(config.clis) : config.clis[k].id = id}
Usable(config) ==
    \A k \in 1..Len(config.clis) : {"id", "command", "args"} \subseteq DOMAIN config.clis[k]
Resolvable(config, id) ==
    /\ Usable(config)
    /\ EntriesFor(config, id) # {}
    /\ "list" \in DOMAIN config.clis[Max(EntriesFor(config, id))].args

\* C18: every call resolves its model id against the configuration stored when
\* the call starts, whatever was stored before: an id that configuration
\* knows is launched with the command and args stored for it, an id it does
\* not know gives None, and no command from an older configuration is used.
C18_SpecsReadFreshOnEveryCall ==
    [][ \A i \in Members :
            (pc[i] = "start" /\ pc'[i] # "start") =>
                /\ Resolvable(StoredConfig, models[i]) =>
                       LET entry == StoredConfig.clis[Max(EntriesFor(StoredConfig, models[i]))]
                       IN  /\ pc'[i] = "spawn"
                           /\ cmd'[i].argv = <<entry.command>> \o entry.args.list
                /\ (Usable(StoredConfig) /\ EntriesFor(StoredConfig, models[i]) = {}) =>
                       pc'[i] = "done" /\ resp'[i] = None
                /\ ~Resolvable(StoredConfig, models[i]) => cmd'[i] = <<>>
      ]_vars

\* gemini was requested twice: the first call found it unknown, then the
\* configuration was edited, and the second call launches the command and args
\* of the edited configuration.
C18_Witness ==
    /\ Len(models) = 2
    /\ models[1] = "gemini" /\ models[2] = "gemini"
    /\ edits = 1
    /\ pc[1] = "done" /\ resp[1] = None /\ cmd[1] = <<>>
    /\ cmd[2] # <<>>
    /\ cmd[2].argv = <<"gemini-next", "-p">>

\* A step of query_models_parallel or of one of its query_model calls.
CallStep ==
    \/ \E ms \in ModelLists, msgs \in Conversations : Call(ms, msgs)
    \/ \E i \in Members : Member(i)
    \/ BatchReturns
    \/ BatchRaises

\* C19 as stated: no step of a call changes the configuration store, whatever
\* state the store is in, a store that does not exist yet included.
C19_CallsLeaveStoreAlone ==
    [][CallStep => store' = store]_vars

\* C19 amended: no step of a call changes a store that exists or the
\* configuration that calls read; a call that starts while the store does not
\* exist creates it, holding the default configuration.
C19_CallsOnlyCreateMissingStore ==
    [][CallStep =>
          /\ store.exists => store' = store
          /\ ~store.exists => store' \in {store, File(DEFAULT_CONFIG)}
          /\ StoredConfig' = StoredConfig
          /\ (\E i \in Members : Start(i)) => store'.exists
      ]_vars

\* A batch has returned a result while the store holds what it held from the
\* beginning, text that is no JSON, which no edit writes.
C19_Witness ==
    /\ batch = "returned"
    /\ store = NotJson
    /\ \E m \in DOMAIN result : IsResult(result[m])

\* C20: on every return path of query_model the process the call created, if
\* any, has exited and been collected when the call returns, also when the
\* call returns None because of a fault after the spawn.
C20_NoChildLeftBehind ==
    \A i \in Members :
        pc[i] = "done" => proc[i].state \in {"none", "reaped"}

====
